---- MODULE Spec2Model ----
(***************************************************************************)
(* A model of ethereum/blockchain/BREthereumLog.c: the Ethereum Log        *)
(* entity (hash, address, topics, data, status), its RLP item codec, its   *)
(* accessors and matching predicates, and its BRSet support.               *)
(*                                                                         *)
(* Bytes are naturals in 0..255, an address is a sequence of 20 bytes, a   *)
(* topic a sequence of 32 bytes.  A BREthereumHash is abstracted to a      *)
(* natural number; 0 is the all-zero hash that calloc() produces.          *)
(***************************************************************************)
EXTENDS Integers, Sequences, FiniteSets, TLC

(***************************************************************************)
(* Bounds of the model.                                                    *)
(***************************************************************************)
MaxTopics == 2
MaxReceiptIndex == 1

(***************************************************************************)
(* Program constants.                                                      *)
(***************************************************************************)
AddressBytes == 20
TopicBytes == 32
TopicPrefixBytes == 12
DataCountModulus == 256

NULL == [null |-> TRUE]

Rep(n, b) == [i \in 1..n |-> b]

Take(s, n) == SubSeq(s, 1, IF n < Len(s) THEN n ELSE Len(s))

(***************************************************************************)
(* Log Topic                                                               *)
(***************************************************************************)
\* static BREthereumLogTopic empty / emptyTopic: zero-initialised statics.
empty == Rep(TopicBytes, 0)

emptyTopic == Rep(TopicBytes, 0)

logTopicCreateAddress(raw) ==
    [i \in 1..TopicBytes |->
        IF i <= TopicBytes - AddressBytes THEN empty[i]
        ELSE raw[i - (TopicBytes - AddressBytes)]]

\* A variant that forgets the 12 leading bytes.
logTopicMatchesAddressBool_SuffixOnly(topic, address) ==
    SubSeq(topic, TopicPrefixBytes + 1, TopicPrefixBytes + AddressBytes)
        = SubSeq(address, 1, AddressBytes)

logTopicMatchesAddressBool(topic, address) ==
    /\ SubSeq(topic, 1, TopicPrefixBytes) = SubSeq(empty, 1, TopicPrefixBytes)
    /\ SubSeq(topic, TopicPrefixBytes + 1, TopicPrefixBytes + AddressBytes)
           = SubSeq(address, 1, AddressBytes)

logTopicAsAddress(topic) ==
    SubSeq(topic, TopicPrefixBytes + 1, TopicPrefixBytes + AddressBytes)

(***************************************************************************)
(* RLP items.  A BRRlpItem is either a byte string or a list of items.     *)
(***************************************************************************)
BytesItem(b) == [isList |-> FALSE, bytes |-> b, items |-> <<>>]

ListItem(its) == [isList |-> TRUE, bytes |-> <<>>, items |-> its]

\* rlpEncodeItemBytes (coder, bytes, bytesCount): the first bytesCount bytes.
rlpEncodeItemBytes(bytes, bytesCount) == BytesItem(Take(bytes, bytesCount))

\* rlpDecodeItemBytes: a fresh buffer holding the item's bytes, and its size_t
\* length.
rlpDecodeItemBytes(item) == [bytes |-> item.bytes, bytesCount |-> Len(item.bytes)]

rlpEncodeListItems(items, itemsCount) == ListItem(Take(items, itemsCount))

rlpDecodeList(item) == [items |-> item.items, itemsCount |-> Len(item.items)]

addressRlpEncode(address) == rlpEncodeItemBytes(address, AddressBytes)

addressRlpDecode(item) == rlpDecodeItemBytes(item).bytes

(***************************************************************************)
(* RLP wire bytes (rlpDataExtract / rlpGetItem): the canonical encoding of *)
(* byte strings and lists.                                                 *)
(***************************************************************************)
RECURSIVE RlpBigEndian(_)
RlpBigEndian(n) ==
    IF n = 0 THEN <<>> ELSE Append(RlpBigEndian(n \div 256), n % 256)

RECURSIVE RlpFromBigEndian(_)
RlpFromBigEndian(bs) ==
    IF bs = <<>> THEN 0
    ELSE RlpFromBigEndian(SubSeq(bs, 1, Len(bs) - 1)) * 256 + bs[Len(bs)]

RlpHeader(length, offset) ==
    IF length < 56 THEN <<offset + length>>
    ELSE <<offset + 55 + Len(RlpBigEndian(length))>> \o RlpBigEndian(length)

RECURSIVE rlpDataExtract(_)
RECURSIVE RlpConcat(_)
RlpConcat(items) ==
    IF items = <<>> THEN <<>>
    ELSE rlpDataExtract(Head(items)) \o RlpConcat(Tail(items))

rlpDataExtract(item) ==
    IF item.isList
    THEN LET payload == RlpConcat(item.items)
         IN  RlpHeader(Len(payload), 192) \o payload
    ELSE IF Len(item.bytes) = 1 /\ item.bytes[1] < 128
         THEN item.bytes
         ELSE RlpHeader(Len(item.bytes), 128) \o item.bytes

\* The extent of the item that starts at the head of bs: the number of
\* header bytes and of payload bytes.
RlpExtent(bs) ==
    LET b == bs[1] IN
    IF b < 128 THEN [list |-> FALSE, header |-> 0, payload |-> 1]
    ELSE IF b < 184 THEN [list |-> FALSE, header |-> 1, payload |-> b - 128]
    ELSE IF b < 192
         THEN [list |-> FALSE, header |-> 1 + (b - 183),
               payload |-> RlpFromBigEndian(SubSeq(bs, 2, 1 + (b - 183)))]
    ELSE IF b < 248 THEN [list |-> TRUE, header |-> 1, payload |-> b - 192]
    ELSE [list |-> TRUE, header |-> 1 + (b - 247),
          payload |-> RlpFromBigEndian(SubSeq(bs, 2, 1 + (b - 247)))]

RECURSIVE rlpGetItem(_)
RECURSIVE RlpSplit(_)
RlpSplit(bs) ==
    IF bs = <<>> THEN <<>>
    ELSE LET e == RlpExtent(bs)
             n == e.header + e.payload
         IN  <<rlpGetItem(SubSeq(bs, 1, n))>> \o RlpSplit(SubSeq(bs, n + 1, Len(bs)))

rlpGetItem(data) ==
    LET e == RlpExtent(data)
        payload == SubSeq(data, e.header + 1, e.header + e.payload)
    IN  IF e.list THEN ListItem(RlpSplit(payload)) ELSE BytesItem(payload)

(***************************************************************************)
(* Log Status (BREthereumLogStatus) and the identity hash.                 *)
(***************************************************************************)
HASH_ZERO == 0

\* The status of a calloc()-ed record: every byte zero.
ZeroStatus ==
    [type |-> "ZEROED", transactionHash |-> HASH_ZERO, transactionReceiptIndex |-> 0,
     blockHash |-> HASH_ZERO, blockNumber |-> 0, transactionIndex |-> 0]

logStatusCreate(type, transactionHash, transactionReceiptIndex) ==
    [type |-> type, transactionHash |-> transactionHash,
     transactionReceiptIndex |-> transactionReceiptIndex,
     blockHash |-> HASH_ZERO, blockNumber |-> 0, transactionIndex |-> 0]

\* The content hash of the pair {Transaction-Hash, Receipt-Index}: an
\* injective pairing, never the all-zero hash.
logStatusCreateHash(status) ==
    LET a == status.transactionHash
        b == status.transactionReceiptIndex
    IN  1 + ((a + b) * (a + b + 1)) \div 2 + b

\* A variant that overwrites the block of an Included status.
transition_to_included_Overwrite(status, blockHash, blockNumber, transactionIndex) ==
    IF status.type \in {"PENDING", "INCLUDED"}
    THEN [error |-> "None",
          status |-> [status EXCEPT !.type = "INCLUDED",
                                    !.blockHash = blockHash,
                                    !.blockNumber = blockNumber,
                                    !.transactionIndex = transactionIndex]]
    ELSE [error |-> "InvalidStatusTransition", status |-> status]

transition_to_included(status, blockHash, blockNumber, transactionIndex) ==
    IF status.type = "PENDING"
    THEN [error |-> "None",
          status |-> [status EXCEPT !.type = "INCLUDED",
                                    !.blockHash = blockHash,
                                    !.blockNumber = blockNumber,
                                    !.transactionIndex = transactionIndex]]
    ELSE [error |-> "InvalidStatusTransition", status |-> status]

revert_to_pending(status) ==
    IF status.type = "INCLUDED"
    THEN [error |-> "None",
          status |-> logStatusCreate("PENDING", status.transactionHash,
                                     status.transactionReceiptIndex)]
    ELSE [error |-> "InvalidStatusTransition", status |-> status]

hashSetEqual(h1, h2) == h1 = h2

\* The leading machine word of the hash.
hashSetValue(h) == h % 4

(***************************************************************************)
(* Ethereum Log                                                            *)
(***************************************************************************)
\* calloc (1, sizeof (struct BREthereumLogRecord))
ZeroLog ==
    [hash |-> HASH_ZERO, address |-> Rep(AddressBytes, 0), topics |-> <<>>,
     data |-> <<>>, dataCount |-> 0, status |-> ZeroStatus]

\* A variant that hashes the transaction hash alone.
logInitializeStatus_HashOfTransaction(log, transactionHash, transactionReceiptIndex) ==
    LET status == logStatusCreate("PENDING", transactionHash, transactionReceiptIndex)
    IN  [log EXCEPT !.status = status,
                    !.hash = logStatusCreateHash(
                                 logStatusCreate("PENDING", transactionHash, 0))]

logInitializeStatus(log, transactionHash, transactionReceiptIndex) ==
    LET status == logStatusCreate("PENDING", transactionHash, transactionReceiptIndex)
    IN  [log EXCEPT !.status = status, !.hash = logStatusCreateHash(status)]

logGetStatus(log) == log.status

logGetHash(log) == log.hash

logGetAddress(log) == log.address

logHasAddress(log, address) == log.address = address

logGetTopicsCount(log) == Len(log.topics)

\* A variant that wraps an out-of-range index around.
logGetTopic_Wrap(log, index) ==
    IF Len(log.topics) = 0 THEN emptyTopic
    ELSE log.topics[(index % Len(log.topics)) + 1]

\* index is a size_t, counted from 0.
logGetTopic(log, index) ==
    IF index < Len(log.topics) THEN log.topics[index + 1] ELSE emptyTopic

\* The bytes handed to the caller: a malloc()-ed copy of dataCount bytes.
\* A variant that hands out the Log's own buffer.
logGetData_Alias(log) ==
    [bytesCount |-> log.dataCount, bytes |-> Take(log.data, log.dataCount),
     fresh |-> FALSE]

\* fresh: the bytes are storage of the caller's own, not the Log's.
logGetData(log) ==
    [bytesCount |-> log.dataCount, bytes |-> Take(log.data, log.dataCount),
     fresh |-> TRUE]

logMatchesAddress(log, address, topicsOnly) ==
    LET match == \E i \in 1..logGetTopicsCount(log) :
                     logTopicMatchesAddressBool(log.topics[i], address)
    IN  IF topicsOnly THEN match ELSE match \/ logHasAddress(log, address)

\* A variant that does not look at the status type.
logExtractIncluded_AnyType(log, wantBlockHash, wantBlockNumber, out) ==
    [ret |-> 1,
     out |-> [blockHash |-> IF wantBlockHash THEN log.status.blockHash
                            ELSE out.blockHash,
              blockNumber |-> IF wantBlockNumber THEN log.status.blockNumber
                              ELSE out.blockNumber]]

\* The out-parameters are written only when the pointer is not NULL; out is
\* the caller's [blockHash, blockNumber] before the call.
logExtractIncluded(log, wantBlockHash, wantBlockNumber, out) ==
    IF log.status.type # "INCLUDED"
    THEN [ret |-> 0, out |-> out]
    ELSE [ret |-> 1,
          out |-> [blockHash |-> IF wantBlockHash THEN log.status.blockHash
                                 ELSE out.blockHash,
                   blockNumber |-> IF wantBlockNumber THEN log.status.blockNumber
                                   ELSE out.blockNumber]]

logHashValue(l) == hashSetValue(l.hash)

\* A variant that also compares the logger's address.
logHashEqual_WithAddress(l1, l2) ==
    hashSetEqual(l1.hash, l2.hash) /\ l1.address = l2.address

logHashEqual(l1, l2) == hashSetEqual(l1.hash, l2.hash)

(***************************************************************************)
(* Log - RLP Encode                                                        *)
(***************************************************************************)
logTopicRlpEncodeItem(topic) == rlpEncodeItemBytes(topic, TopicBytes)

logTopicsRlpEncodeItem(log) ==
    LET itemsCount == Len(log.topics)
        items == [i \in 1..itemsCount |-> logTopicRlpEncodeItem(log.topics[i])]
    IN  rlpEncodeListItems(items, itemsCount)

logRlpEncodeItem(log) ==
    LET items == <<addressRlpEncode(log.address),
                   logTopicsRlpEncodeItem(log),
                   rlpEncodeItemBytes(log.data, log.dataCount)>>
    IN  rlpEncodeListItems(items, 3)

logEncodeRLP(log) == rlpDataExtract(logRlpEncodeItem(log))

(***************************************************************************)
(* Log - RLP Decode.  A decode either returns a Log or ends the process    *)
(* (a failed assert, or a crash); where the build leaves the behaviour     *)
(* undefined the result is a set of possible outcomes.  ndebug is the      *)
(* build flavour of the call: TRUE when assert() is compiled out.          *)
(***************************************************************************)
GarbageBytes == {0, 255}

Aborted == [abort |-> TRUE, value |-> NULL]

Returned(v) == [abort |-> FALSE, value |-> v]

logTopicRlpDecodeItem(item, ndebug) ==
    LET data == rlpDecodeItemBytes(item) IN
    IF data.bytesCount = TopicBytes THEN {Returned(data.bytes)}
    ELSE IF ~ndebug THEN {Aborted}
    ELSE IF data.bytesCount > TopicBytes
         THEN {Returned(SubSeq(data.bytes, 1, TopicBytes))}
         \* memcpy reads past the end of the decoded buffer
         ELSE {Aborted} \cup
              {Returned(data.bytes \o Rep(TopicBytes - data.bytesCount, g)) :
                   g \in GarbageBytes}

RECURSIVE logTopicsDecodeLoop(_, _)
logTopicsDecodeLoop(items, ndebug) ==
    IF items = <<>> THEN {Returned(<<>>)}
    ELSE LET heads == logTopicRlpDecodeItem(Head(items), ndebug)
             tails == logTopicsDecodeLoop(Tail(items), ndebug)
         IN  {IF h.abort \/ t.abort THEN Aborted
              ELSE Returned(<<h.value>> \o t.value) : h \in heads, t \in tails}

logTopicsRlpDecodeItem(item, ndebug) ==
    logTopicsDecodeLoop(rlpDecodeList(item).items, ndebug)

\* What a read of items[i] past the end of the decoded list may find.
GarbageItems ==
    <<{BytesItem(Rep(AddressBytes, 255))},
      {ListItem(<<>>), ListItem(<<BytesItem(Rep(TopicBytes, 255))>>)},
      {BytesItem(<<>>), BytesItem(<<255>>)}>>

logRlpDecodeFields(items, ndebug) ==
    LET data == rlpDecodeItemBytes(items[3])
    IN  {IF t.abort THEN Aborted
         ELSE Returned([ZeroLog EXCEPT !.address = addressRlpDecode(items[1]),
                                       !.topics = t.value,
                                       !.data = data.bytes,
                                       !.dataCount = data.bytesCount % DataCountModulus]) :
            t \in logTopicsRlpDecodeItem(items[2], ndebug)}

logRlpDecodeItem(item, ndebug) ==
    LET list == rlpDecodeList(item) IN
    IF list.itemsCount = 3 THEN logRlpDecodeFields(list.items, ndebug)
    ELSE IF ~ndebug THEN {Aborted}
    ELSE IF list.itemsCount > 3 THEN logRlpDecodeFields(list.items, ndebug)
         \* items[itemsCount .. 2] are read past the end of the list
         ELSE {Aborted} \cup
              UNION {logRlpDecodeFields(
                         [i \in 1..3 |-> IF i <= list.itemsCount THEN list.items[i]
                                         ELSE garbage[i]], ndebug) :
                        garbage \in {<<a, t, d>> : a \in GarbageItems[1],
                                                  t \in GarbageItems[2],
                                                  d \in GarbageItems[3]}}

logDecodeRLP(data, ndebug) == logRlpDecodeItem(rlpGetItem(data), ndebug)

\* A variant that duplicates the record field by field.
logCopy_Structural(log, ndebug) == {Returned(log)}

logCopy(log, ndebug) == logRlpDecodeItem(logRlpEncodeItem(log), ndebug)

(***************************************************************************)
(* The values the environment supplies.                                    *)
(***************************************************************************)
LogRefs == {1, 2}

AddrA == [i \in 1..AddressBytes |-> 16 + i]

\* differs from AddrA in its last byte only
AddrB == [AddrA EXCEPT ![AddressBytes] = 99]

AddrZero == Rep(AddressBytes, 0)

Addresses == {AddrA, AddrB, AddrZero}

TopicA == logTopicCreateAddress(AddrA)

TopicB == logTopicCreateAddress(AddrB)

\* AddrA in the trailing 20 bytes, but a leading byte that is not zero
TopicDirtyFirst == [TopicA EXCEPT ![1] = 1]

TopicDirtyLast == [TopicA EXCEPT ![TopicPrefixBytes] = 128]

\* an event signature: an opaque topic
TopicSig == [i \in 1..TopicBytes |-> 140 + i]

Topics == {TopicA, TopicB, TopicDirtyFirst, TopicDirtyLast, TopicSig, emptyTopic}

RECURSIVE SeqsUpTo(_, _)
SeqsUpTo(S, n) ==
    IF n = 0 THEN {<<>>}
    ELSE LET shorter == SeqsUpTo(S, n - 1)
         IN  shorter \cup {Append(q, x) : q \in {r \in shorter : Len(r) = n - 1}, x \in S}

Data(n) == [i \in 1..n |-> (i * 7) % 251]

DataLengths ==
    {0, 1, 3, DataCountModulus - 1, DataCountModulus, DataCountModulus + 1}

\* The wire list [address, topics, data].
WireItem(address, topics, data) ==
    ListItem(<<BytesItem(address),
               ListItem([i \in 1..Len(topics) |-> BytesItem(topics[i])]),
               BytesItem(data)>>)

WireTopics == [i \in 1..MaxTopics |-> IF i % 2 = 1 THEN TopicSig ELSE TopicA]

WellFormedItems ==
    {WireItem(AddrA, t, Data(n)) : t \in {<<>>, WireTopics}, n \in DataLengths}

MalformedItems ==
    { ListItem(<<>>),
      ListItem(<<BytesItem(AddrA), ListItem(<<BytesItem(TopicA)>>)>>),
      ListItem(<<BytesItem(AddrA), ListItem(<<>>), BytesItem(Data(3)), BytesItem(Data(1))>>),
      WireItem(AddrA, <<TopicSig, SubSeq(TopicA, 1, TopicBytes - 1)>>, Data(3)),
      WireItem(AddrA, <<TopicA \o <<1>>>>, Data(3)) }

Items == WellFormedItems \cup MalformedItems

SmallItems ==
    {WireItem(AddrA, <<>>, Data(0)), WireItem(AddrB, WireTopics, Data(3))}

QueryItems ==
    {WireItem(a, t, Data(1)) : a \in {AddrA, AddrZero}, t \in SeqsUpTo(Topics, MaxTopics)}

IsWellFormed(item) ==
    /\ item.isList
    /\ Len(item.items) = 3
    /\ ~item.items[1].isList /\ Len(item.items[1].bytes) = AddressBytes
    /\ item.items[2].isList
    /\ \A i \in 1..Len(item.items[2].items) :
           /\ ~item.items[2].items[i].isList
           /\ Len(item.items[2].items[i].bytes) = TopicBytes
    /\ ~item.items[3].isList

TransactionHashes == {1, 2}

ReceiptIndexes == 0..MaxReceiptIndex

\* The blocks that may include a transaction: hash and number.
Blocks == {[hash |-> 7, number |-> 100], [hash |-> 8, number |-> 101]}

TransactionIndexes == {5}

\* The caller's variables before a call of logExtractIncluded.
OutBefore == [blockHash |-> 9, blockNumber |-> 9]

(***************************************************************************)
(* State.                                                                  *)
(***************************************************************************)
VARIABLES
    logs,       \* the Log each reference points to, or NULL
    created,    \* per reference, the pair given to logInitializeStatus, or NULL
    included,   \* per reference, the block given to the transition that
                \* included the Log, or NULL when it is not included
    process,    \* "running", or "aborted" after a failed assert or a crash
    ret         \* the last call: its name, arguments and result

vars == <<logs, created, included, process, ret>>

Call(op, ref, arg, val) == [op |-> op, ref |-> ref, arg |-> arg, val |-> val]

Live(ref) == logs[ref] # NULL

Init ==
    /\ logs = [r \in LogRefs |-> NULL]
    /\ created = [r \in LogRefs |-> NULL]
    /\ included = [r \in LogRefs |-> NULL]
    /\ process = "running"
    /\ ret = Call("none", 0, NULL, NULL)

\* A decoder's outcome o stored as the Log of ref.
Deliver(op, ref, arg, o) ==
    IF o.abort
    THEN /\ process' = "aborted"
         /\ ret' = Call(op, ref, arg, "abort")
         /\ UNCHANGED <<logs, created, included>>
    ELSE /\ logs' = [logs EXCEPT ![ref] = o.value]
         /\ created' = [created EXCEPT ![ref] = NULL]
         /\ included' = [included EXCEPT ![ref] = NULL]
         /\ ret' = Call(op, ref, arg, "log")
         /\ UNCHANGED process

RlpDecodeItem(ref, item) ==
    /\ process = "running" /\ ~Live(ref)
    /\ \E ndebug \in BOOLEAN : \E o \in logRlpDecodeItem(item, ndebug) :
           Deliver("logRlpDecodeItem", ref, item, o)

DecodeRLP(ref, item) ==
    /\ process = "running" /\ ~Live(ref)
    /\ \E ndebug \in BOOLEAN : \E o \in logDecodeRLP(rlpDataExtract(item), ndebug) :
           Deliver("logDecodeRLP", ref, item, o)

Copy(ref, to) ==
    /\ process = "running" /\ Live(ref) /\ ~Live(to)
    /\ \E ndebug \in BOOLEAN : \E o \in logCopy(logs[ref], ndebug) :
           Deliver("logCopy", to, ref, o)

Release(ref) ==
    /\ process = "running" /\ Live(ref)
    /\ logs' = [logs EXCEPT ![ref] = NULL]
    /\ created' = [created EXCEPT ![ref] = NULL]
    /\ included' = [included EXCEPT ![ref] = NULL]
    /\ ret' = Call("logRelease", ref, NULL, NULL)
    /\ UNCHANGED process

\* A call that only reads the Log of ref.
Reads(ref) ==
    /\ process = "running" /\ Live(ref)
    /\ UNCHANGED <<logs, created, included, process>>

RlpEncodeItem(ref) ==
    /\ Reads(ref)
    /\ ret' = Call("logRlpEncodeItem", ref, NULL, logRlpEncodeItem(logs[ref]))

EncodeRLP(ref) ==
    /\ Reads(ref)
    /\ ret' = Call("logEncodeRLP", ref, NULL, logEncodeRLP(logs[ref]))

InitializeStatus(ref, transactionHash, transactionReceiptIndex) ==
    /\ process = "running" /\ Live(ref)
    /\ logs' = [logs EXCEPT ![ref] =
                   logInitializeStatus(@, transactionHash, transactionReceiptIndex)]
    /\ created' = [created EXCEPT ![ref] =
                      [transactionHash |-> transactionHash,
                       transactionReceiptIndex |-> transactionReceiptIndex]]
    /\ included' = [included EXCEPT ![ref] = NULL]
    /\ ret' = Call("logInitializeStatus", ref,
                   <<transactionHash, transactionReceiptIndex>>, NULL)
    /\ UNCHANGED process

TransitionToIncluded(ref, blockHash, blockNumber, transactionIndex) ==
    /\ process = "running" /\ Live(ref)
    /\ LET r == transition_to_included(logs[ref].status, blockHash, blockNumber,
                                       transactionIndex)
       IN  /\ logs' = [logs EXCEPT ![ref].status = r.status]
           /\ included' = IF r.error # "None" THEN included
                          ELSE [included EXCEPT ![ref] =
                                   [blockHash |-> blockHash, blockNumber |-> blockNumber,
                                    transactionIndex |-> transactionIndex]]
           /\ ret' = Call("transition_to_included", ref,
                          <<blockHash, blockNumber, transactionIndex>>, r.error)
    /\ UNCHANGED <<created, process>>

RevertToPending(ref) ==
    /\ process = "running" /\ Live(ref)
    /\ LET r == revert_to_pending(logs[ref].status)
       IN  /\ logs' = [logs EXCEPT ![ref].status = r.status]
           /\ included' = IF r.error # "None" THEN included
                          ELSE [included EXCEPT ![ref] = NULL]
           /\ ret' = Call("revert_to_pending", ref, NULL, r.error)
    /\ UNCHANGED <<created, process>>

GetStatus(ref) ==
    /\ Reads(ref)
    /\ ret' = Call("logGetStatus", ref, NULL, logGetStatus(logs[ref]))

GetHash(ref) ==
    /\ Reads(ref)
    /\ ret' = Call("logGetHash", ref, NULL, logGetHash(logs[ref]))

GetAddress(ref) ==
    /\ Reads(ref)
    /\ ret' = Call("logGetAddress", ref, NULL, logGetAddress(logs[ref]))

HasAddress(ref, address) ==
    /\ Reads(ref)
    /\ ret' = Call("logHasAddress", ref, address, logHasAddress(logs[ref], address))

GetTopicsCount(ref) ==
    /\ Reads(ref)
    /\ ret' = Call("logGetTopicsCount", ref, NULL, logGetTopicsCount(logs[ref]))

GetTopic(ref, index) ==
    /\ Reads(ref)
    /\ ret' = Call("logGetTopic", ref, index, logGetTopic(logs[ref], index))

MatchesAddress(ref, address, topicsOnly) ==
    /\ Reads(ref)
    /\ ret' = Call("logMatchesAddress", ref, <<address, topicsOnly>>,
                   logMatchesAddress(logs[ref], address, topicsOnly))

ExtractIncluded(ref, wantBlockHash, wantBlockNumber) ==
    /\ Reads(ref)
    /\ ret' = Call("logExtractIncluded", ref, <<wantBlockHash, wantBlockNumber>>,
                   logExtractIncluded(logs[ref], wantBlockHash, wantBlockNumber,
                                      OutBefore))

HashValue(ref) ==
    /\ Reads(ref)
    /\ ret' = Call("logHashValue", ref, NULL, logHashValue(logs[ref]))

HashEqual(ref, other) ==
    /\ Reads(ref) /\ Live(other)
    /\ ret' = Call("logHashEqual", ref, other, logHashEqual(logs[ref], logs[other]))

GetData(ref) ==
    /\ Reads(ref)
    /\ ret' = Call("logGetData", ref, "returned", logGetData(logs[ref]))

\* The caller writes byte b at position i of the buffer logGetData returned.
WriteData(i, b) ==
    /\ process = "running" /\ ret.op = "logGetData"
    /\ i \in 1..ret.val.bytesCount /\ ret.val.bytes[i] # b
    /\ ret' = [ret EXCEPT !.arg = "written", !.val.bytes[i] = b]
    /\ logs' = IF ret.val.fresh THEN logs
               ELSE [logs EXCEPT ![ret.ref].data[i] = b]
    /\ UNCHANGED <<created, included, process>>

(***************************************************************************)
(* Specifications.                                                         *)
(***************************************************************************)
Codec(items) ==
    \/ \E ref \in LogRefs, item \in items : RlpDecodeItem(ref, item)
    \/ \E ref \in LogRefs, item \in items : DecodeRLP(ref, item)
    \/ \E ref \in LogRefs : RlpEncodeItem(ref)
    \/ \E ref \in LogRefs : EncodeRLP(ref)
    \/ \E ref \in LogRefs, to \in LogRefs : Copy(ref, to)
    \/ \E ref \in LogRefs : Release(ref)

Buffer ==
    \/ \E ref \in LogRefs : GetData(ref)
    \/ \E i \in {1, DataCountModulus - 1}, b \in GarbageBytes : WriteData(i, b)

Query(addresses, indexes) ==
    \/ \E ref \in LogRefs : GetAddress(ref)
    \/ \E ref \in LogRefs, address \in addresses : HasAddress(ref, address)
    \/ \E ref \in LogRefs : GetTopicsCount(ref)
    \/ \E ref \in LogRefs, index \in indexes : GetTopic(ref, index)
    \/ \E ref \in LogRefs, address \in addresses, topicsOnly \in BOOLEAN :
           MatchesAddress(ref, address, topicsOnly)

Status ==
    \/ \E ref \in LogRefs, h \in TransactionHashes, i \in ReceiptIndexes :
           InitializeStatus(ref, h, i)
    \/ \E ref \in LogRefs, block \in Blocks, ti \in TransactionIndexes :
           TransitionToIncluded(ref, block.hash, block.number, ti)
    \/ \E ref \in LogRefs : RevertToPending(ref)
    \/ \E ref \in LogRefs : GetStatus(ref)
    \/ \E ref \in LogRefs : GetHash(ref)
    \/ \E ref \in LogRefs, wh \in BOOLEAN, wn \in BOOLEAN : ExtractIncluded(ref, wh, wn)
    \/ \E ref \in LogRefs : HashValue(ref)
    \/ \E ref \in LogRefs, other \in LogRefs : HashEqual(ref, other)

\* Every operation, on Logs decoded from a few wire items.
Next == Codec(SmallItems) \/ Buffer \/ Query({AddrA}, {0, MaxTopics}) \/ Status

Spec == Init /\ [][Next]_vars

\* The codec, on every wire item, malformed ones included.
NextCodec == Codec(Items) \/ Buffer

SpecCodec == Init /\ [][NextCodec]_vars

\* The accessors and the matching predicates, on Logs of every topic
\* sequence.
DecodedLog(item) == (CHOOSE o \in logRlpDecodeItem(item, FALSE) : TRUE).value

InitQuery ==
    /\ \E item \in QueryItems :
           logs = [r \in LogRefs |-> IF r = 1 THEN DecodedLog(item) ELSE NULL]
    /\ created = [r \in LogRefs |-> NULL]
    /\ included = [r \in LogRefs |-> NULL]
    /\ process = "running"
    /\ ret = Call("none", 0, NULL, NULL)

NextQuery == Query(Addresses, 0..(MaxTopics + 1))

SpecQuery == InitQuery /\ [][NextQuery]_vars

(***************************************************************************)
(* Properties.                                                             *)
(***************************************************************************)
identity_hash(transactionHash, receiptIndex) ==
    logStatusCreateHash(logStatusCreate("PENDING", transactionHash, receiptIndex))

Initialised(ref) == Live(ref) /\ created[ref] # NULL

AllZero(bytes) == \A k \in 1..Len(bytes) : bytes[k] = 0

\* C1: a Log created with the pair (transaction_hash, receipt_index) keeps
\* the identity hash identity_hash(transaction_hash, receipt_index) and a
\* status carrying that pair, through every sequence of accepted and
\* rejected transition_to_included and revert_to_pending calls.
IdentityStable ==
    \A ref \in LogRefs :
        Initialised(ref) =>
            /\ logs[ref].hash = identity_hash(created[ref].transactionHash,
                                              created[ref].transactionReceiptIndex)
            /\ logs[ref].status.transactionHash = created[ref].transactionHash
            /\ logs[ref].status.transactionReceiptIndex
                   = created[ref].transactionReceiptIndex

\* A Log with a receipt index other than 0 that has been included and then
\* reverted.
IdentityStableWitness ==
    /\ ret.op = "revert_to_pending" /\ ret.val = "None"
    /\ Initialised(ret.ref)
    /\ created[ret.ref].transactionReceiptIndex > 0
    /\ logs[ret.ref].status.type = "PENDING"

\* C2: transition_to_included on an Included status and revert_to_pending on
\* a Pending status return InvalidStatusTransition, do not end the process
\* and leave the status unchanged; of two transition_to_included calls in a
\* row on one Log the second fails.
InvalidTransitionsRejected ==
    [][ /\ ret'.op = "transition_to_included" =>
             LET before == logs[ret'.ref].status
                 after == logs'[ret'.ref].status
             IN  /\ process' = "running"
                 /\ IF before.type = "PENDING"
                    THEN ret'.val = "None" /\ after.type = "INCLUDED"
                    ELSE ret'.val = "InvalidStatusTransition" /\ after = before
                 /\ ( /\ ret.op = "transition_to_included" /\ ret.ref = ret'.ref
                      /\ ret.val = "None" ) => ret'.val = "InvalidStatusTransition"
        /\ ret'.op = "revert_to_pending" =>
             LET before == logs[ret'.ref].status
                 after == logs'[ret'.ref].status
             IN  /\ process' = "running"
                 /\ IF before.type = "INCLUDED"
                    THEN ret'.val = "None" /\ after.type = "PENDING"
                    ELSE ret'.val = "InvalidStatusTransition" /\ after = before
      ]_vars

\* A transition_to_included that was rejected on an Included Log.
InvalidTransitionsRejectedWitness ==
    /\ ret.op = "transition_to_included" /\ ret.val = "InvalidStatusTransition"
    /\ logs[ret.ref].status.type = "INCLUDED"
    /\ included[ret.ref].blockHash # ret.arg[1]

DecodeEncodeRoundTrip ==
    /\ ret.op \in {"logRlpDecodeItem", "logDecodeRLP"}
    /\ IsWellFormed(ret.arg)
    => /\ ret.val = "log"
       /\ LET log == logs[ret.ref]
              wire == ret.arg.items
          IN  /\ logGetAddress(log) = wire[1].bytes
              /\ logGetTopicsCount(log) = Len(wire[2].items)
              /\ \A i \in 1..Len(wire[2].items) :
                     logGetTopic(log, i - 1) = wire[2].items[i].bytes
              /\ logGetData(log).bytesCount = Len(wire[3].bytes)
              /\ logGetData(log).bytes = wire[3].bytes

\* C5: decoding a list that has not exactly 3 elements, or whose topics
\* list holds an item that is not 32 bytes long, returns a DecodeError: the
\* process goes on and no Log is returned.
MalformedGivesDecodeError ==
    /\ ret.op \in {"logRlpDecodeItem", "logDecodeRLP"}
    /\ ~IsWellFormed(ret.arg)
    => /\ process = "running"
       /\ ret.val = "DecodeError"
       /\ ~Live(ret.ref)

\* C6: two Logs given the same (transaction_hash, receipt_index) are
\* logHashEqual and have the same logHashValue, whatever their address,
\* topics, data and status; two Logs given different pairs are not
\* logHashEqual.
HashEqualByPair ==
    /\ \A r1 \in LogRefs, r2 \in LogRefs :
           Initialised(r1) /\ Initialised(r2) =>
               /\ logHashEqual(logs[r1], logs[r2]) <=> (created[r1] = created[r2])
               /\ created[r1] = created[r2] =>
                      logHashValue(logs[r1]) = logHashValue(logs[r2])
    /\ ( /\ ret.op = "logHashEqual"
         /\ Initialised(ret.ref) /\ Initialised(ret.arg) )
       => (ret.val <=> (created[ret.ref] = created[ret.arg]))

\* Two Logs of one pair that differ in address, topics, data and status are
\* found equal.
HashEqualByPairWitness ==
    /\ ret.op = "logHashEqual" /\ ret.ref # ret.arg /\ ret.val = TRUE
    /\ Initialised(ret.ref) /\ Initialised(ret.arg)
    /\ logs[ret.ref].address # logs[ret.arg].address
    /\ logs[ret.ref].topics # logs[ret.arg].topics
    /\ logs[ret.ref].dataCount # logs[ret.arg].dataCount
    /\ logs[ret.ref].status.type = "INCLUDED"
    /\ logs[ret.arg].status.type = "PENDING"

\* C7: logMatchesAddress(log, addr, topicsOnly) is true exactly when some
\* topic has 12 leading zero bytes followed by the 20 bytes of addr, or
\* topicsOnly is false and the log's address is addr.
TopicHoldsAddress(topic, address) ==
    /\ \A k \in 1..12 : topic[k] = 0
    /\ \A k \in 1..20 : topic[12 + k] = address[k]

MatchesAddressExact ==
    ret.op = "logMatchesAddress" =>
        LET log == logs[ret.ref]
            address == ret.arg[1]
            topicsOnly == ret.arg[2]
        IN  ret.val <=>
                \/ \E i \in 1..Len(log.topics) : TopicHoldsAddress(log.topics[i], address)
                \/ ~topicsOnly /\ log.address = address

\* A topics-only query for the log's own address that does not match,
\* although a topic carries the address behind a non-zero leading byte.
MatchesAddressExactWitness ==
    /\ ret.op = "logMatchesAddress" /\ ret.arg = <<AddrA, TRUE>>
    /\ logs[ret.ref].address = AddrA
    /\ \E i \in 1..Len(logs[ret.ref].topics) :
           logTopicAsAddress(logs[ret.ref].topics[i]) = AddrA
    /\ ret.val = FALSE

\* C8: logGetTopic(log, i) is the i-th topic when i is less than the topics
\* count, and the all-zero topic when it is not.
TopicAtOrSentinel ==
    ret.op = "logGetTopic" =>
        LET log == logs[ret.ref]
            i == ret.arg
        IN  IF i < Len(log.topics)
            THEN ret.val = log.topics[i + 1]
            ELSE Len(ret.val) = 32 /\ AllZero(ret.val)

\* The topic at the index that equals the count of a Log that has topics,
\* none of them zero.
TopicAtOrSentinelWitness ==
    /\ ret.op = "logGetTopic"
    /\ Len(logs[ret.ref].topics) > 0
    /\ ret.arg = Len(logs[ret.ref].topics)
    /\ \A i \in 1..Len(logs[ret.ref].topics) : ~AllZero(logs[ret.ref].topics[i])
    /\ AllZero(ret.val)

SameWireFields(l1, l2) ==
    /\ l1.address = l2.address
    /\ l1.topics = l2.topics
    /\ l1.data = l2.data
    /\ l1.dataCount = l2.dataCount

\* C9 as stated: no operation changes the address, the topics, the data or
\* the identity hash of a Log; the status is the only field that changes.
OnlyStatusChanges ==
    [][ \A ref \in LogRefs :
            logs[ref] # NULL /\ logs'[ref] # NULL =>
                /\ SameWireFields(logs[ref], logs'[ref])
                /\ logs'[ref].hash = logs[ref].hash
      ]_vars

\* C9: no operation changes the address, the topics or the data of a Log,
\* a write to the buffer that logGetData returned included; the identity
\* hash is changed by logInitializeStatus alone, and the status by
\* logInitializeStatus and the two transitions alone.
OnlyStatusAndHashChange ==
    [][ \A ref \in LogRefs :
            logs[ref] # NULL /\ logs'[ref] # NULL =>
                /\ SameWireFields(logs[ref], logs'[ref])
                /\ logs'[ref].hash # logs[ref].hash =>
                       ret'.op = "logInitializeStatus" /\ ret'.ref = ref
                /\ logs'[ref].status # logs[ref].status =>
                       /\ ret'.ref = ref
                       /\ ret'.op \in {"logInitializeStatus", "transition_to_included",
                                       "revert_to_pending"}
      ]_vars

\* The caller has overwritten a byte of the buffer logGetData returned, and
\* the Log still holds its own bytes.
OnlyStatusAndHashChangeWitness ==
    /\ ret.op = "logGetData" /\ ret.arg = "written"
    /\ ret.val.bytes # logGetData(logs[ret.ref]).bytes
    /\ logs[ret.ref].hash # HASH_ZERO

\* C10: a Log returned by logRlpDecodeItem, logDecodeRLP or logCopy has the
\* all-zero hash and a zeroed status until logInitializeStatus is called on
\* it; logCopy carries over the address, topics and data only; two such
\* Logs are logHashEqual whatever they hold, and the copy of a Log whose
\* hash is not zero is not logHashEqual to its original.
FreshLogsHaveNoIdentity ==
    /\ \A ref \in LogRefs :
           Live(ref) /\ created[ref] = NULL =>
               logs[ref].hash = HASH_ZERO /\ logs[ref].status = ZeroStatus
    /\ \A r1 \in LogRefs, r2 \in LogRefs :
           Live(r1) /\ created[r1] = NULL /\ Live(r2) /\ created[r2] = NULL =>
               logHashEqual(logs[r1], logs[r2])
    /\ ret.op = "logCopy" =>
           LET copy == logs[ret.ref]
               original == logs[ret.arg]
           IN  /\ ret.val = "log"
               /\ copy.address = original.address
               /\ copy.topics = original.topics
               /\ logGetData(copy).bytes = logGetData(original).bytes
               /\ copy.hash = HASH_ZERO /\ copy.status = ZeroStatus
               /\ original.hash # HASH_ZERO => ~logHashEqual(copy, original)

\* The copy of an Included Log that has topics and data.
FreshLogsHaveNoIdentityWitness ==
    /\ ret.op = "logCopy"
    /\ logs[ret.arg].status.type = "INCLUDED"
    /\ logs[ret.arg].hash # HASH_ZERO
    /\ logs[ret.arg].dataCount > 0
    /\ logs[ret.ref].topics # <<>>
    /\ ~logHashEqual(logs[ret.ref], logs[ret.arg])

====
